---- MODULE Spec2Model ----
(***************************************************************************)
(* A model of the vex check run: source discovery (walkdir), the per-file  *)
(* matching loop of vex() and the diagnostic collector (sort + cap).       *)
(***************************************************************************)
EXTENDS Integers, Sequences, FiniteSets, TLC

\* ------------------------------------------------------------------ bounds
\* Number of directory entries that may exist below the project root.
NumEntries == 6
\* Largest number of matches one query yields in one file.
MaxMatches == 2
\* Largest value of max_problems = Limited(N) that is tried.
MaxCap == 3
\* Number of rule modules under the rules directory.
NumVexes == 2
\* Number of syntax-tree nodes a captured Node may wrap.
NumNodes == 2

VARIABLES
    kind,            \* the project tree: entry -> "dir"|"file"|"symlink"|"other"|"absent"
    allows,          \* ctx.allows, compiled: a sequence of file patterns
    ignores,         \* ctx.ignores, compiled: a sequence of file patterns
    rules,           \* behaviour of the inited store's observers
    bad,             \* the entry whose content has a syntax error (0: none)
    max_problems,    \* MaxProblems: [limited |-> BOOLEAN, max |-> Nat]
    dump_path,       \* DumpCmd.path of a dump command (<<>> for a check command)
    command,         \* args.command: "check", "dump", "list_checks", "list_languages"
    store,           \* state of the scriptlet store ("None": none was made)
    inited,          \* rule module -> how often its init was called
    frozen,          \* TRUE once the store's heap is frozen
    ts_kind,         \* syntax-tree node id -> grammar name of the node
    ts_text,         \* syntax-tree node id -> source text of the node
    self_node,       \* the captured Node a callback holds
    other_value,     \* a second value of the callback, a Node or not
    attr,            \* an attribute name the callback asks for
    probed,          \* what each operation on self_node returned
    pc,              \* position inside vex()
    stack,           \* walkdir activation records, innermost last
    paths,           \* walkdir's out-parameter `paths`
    examined,        \* entry -> how often its metadata was read
    dirReads,        \* directory (0 is the root) -> how often read_dir was called
    files,           \* vex: `files`
    fileIdx,         \* vex: position of the `for file in &files` loop
    project_queries, \* vex: `project_queries`
    file_queries,    \* vex: `file_queries` of the current file
    pending,         \* matches of the current file not yet dispatched
    irritations,     \* vex: `irritations`
    query_cache,     \* vex: `query_cache`, the (language, query) pairs it holds
    compiled,        \* history: every (language, query) pair compiled, in order
    log,             \* history: every event dispatched and every file parsed
    result           \* what vex returned (kind "None" while it runs)

vars == <<kind, allows, ignores, rules, bad, max_problems, dump_path, command,
          store, inited, frozen, ts_kind, ts_text, self_node, other_value, attr,
          probed, pc, stack,
          paths, examined, dirReads, files, fileIdx, project_queries, file_queries,
          pending, irritations, query_cache, compiled, log, result>>

inputs == <<kind, allows, ignores, rules, bad, max_problems, dump_path, command>>
storeVars == <<store, inited, frozen>>
nodeInputs == <<ts_kind, ts_text, self_node, other_value, attr>>
nodeVars == <<nodeInputs, probed>>
walkVars == <<stack, paths, examined, dirReads>>
cacheVars == <<query_cache, compiled>>
scanVars == <<files, fileIdx, project_queries, file_queries, pending,
              irritations, cacheVars, log>>

\* ------------------------------------------------------------ project tree
Vexes == 1..NumVexes
Entries == 1..NumEntries
Root == 0
Dirs == {Root} \cup Entries

\* The directory an entry's name is listed in (a fixed tree shape; which
\* entries exist, and as what, is chosen by Init).
Parent(e) == (e - 1) \div 2

\* Base names: a leading dot and an extension.
NameDot(e) == ((e - 1) % 5) \in {1, 2}
NameExt(e) == <<"py", "", "rs", "rs", "txt">>[((e - 1) % 5) + 1]

\* A symlink's target: an ancestor directory (a cycle) or the preceding entry.
TargetOf(e) == IF e % 2 = 1 THEN Parent(e) ELSE e - 1

RECURSIVE RelComponents(_)
RelComponents(e) == IF e = Root THEN <<>> ELSE Append(RelComponents(Parent(e)), e)

ProjectRoot == <<Root>>
AbsPath(e) == ProjectRoot \o RelComponents(e)
EntryOf(path) == path[Len(path)]

RECURSIVE ProperAncestors(_)
ProperAncestors(e) ==
    IF Parent(e) = Root THEN {} ELSE {Parent(e)} \cup ProperAncestors(Parent(e))

\* Faulty variant of ReadDir: the directory lists itself as well, as "." does.
ReadDirWithSelf(d) ==
    {e \in Entries : Parent(e) = d /\ kind[e] # "absent"} \cup ({d} \ {Root})

\* fs::read_dir: the entries listed in directory d.
ReadDir(d) == {e \in Entries : Parent(e) = d /\ kind[e] # "absent"}

\* Faulty variant of SymlinkMetadata: fs::metadata, which follows symbolic links.
FollowingMetadata(e) ==
    IF kind[e] = "symlink"
    THEN IF TargetOf(e) = Root THEN "dir"
         ELSE IF kind[TargetOf(e)] \in {"dir", "file"} THEN kind[TargetOf(e)]
         ELSE "symlink"
    ELSE kind[e]

\* fs::symlink_metadata: the entry's own file type.
SymlinkMetadata(e) == kind[e]

\* ---------------------------------------------------------------- patterns
\* A compiled FilePattern is the set of project-relative paths it matches.
Matches(p, path) == path \in p

AllPaths == {RelComponents(e) : e \in Entries}
\* The allow lists tried: none, one pattern, or a directory and one entry of it.
AllowLists ==
    {<<>>, <<AllPaths>>}
    \cup {<<{RelComponents(e)}>> : e \in Entries}
    \cup {<<{RelComponents(Parent(e))}, {RelComponents(e)}>> :
              e \in {x \in Entries : Parent(x) # Root}}
\* The ignore lists tried: none or one pattern.
IgnoreLists == {<<>>, <<AllPaths>>} \cup {<<{RelComponents(e)}>> : e \in Entries}

\* Faulty variant of ProjectRelativePath: the root prefix is not stripped.
PathWithRoot(entry_path) == entry_path

\* Utf8Path::new(&entry_path.as_str()[ctx.project_root.as_str().len()..])
ProjectRelativePath(entry_path) ==
    SubSeq(entry_path, Len(ProjectRoot) + 1, Len(entry_path))

AnyMatches(patterns, path) ==
    \E i \in DOMAIN patterns : Matches(patterns[i], path)

\* file_name().is_some_and(|name| name.starts_with('.'))
Hidden(path) == Len(path) > 0 /\ NameDot(EntryOf(path))

\* Faulty variant of Skipped: the allow list is not consulted.
SkippedThoughAllowed(entry_path) ==
    LET project_relative_path == ProjectRelativePath(entry_path)
    IN  Hidden(project_relative_path) \/ AnyMatches(ignores, project_relative_path)

\* Faulty variant of Skipped: the hidden-file convention is forgotten.
SkippedUnlessHidden(entry_path) ==
    LET project_relative_path == ProjectRelativePath(entry_path)
    IN  /\ ~AnyMatches(allows, project_relative_path)
        /\ AnyMatches(ignores, project_relative_path)

\* walkdir, lines 310-323: TRUE iff the entry is skipped (`continue`).
Skipped(entry_path) ==
    LET project_relative_path == ProjectRelativePath(entry_path)
    IN  /\ ~AnyMatches(allows, project_relative_path)
        /\ \/ Hidden(project_relative_path)
           \/ AnyMatches(ignores, project_relative_path)

\* walkdir, lines 325-336: what is done with an entry that is not skipped.
Disposition(e) ==
    LET metadata == SymlinkMetadata(e)
    IN  IF metadata = "symlink" THEN "symlink"
        ELSE IF metadata = "dir" THEN "recurse"
        ELSE IF metadata = "file" THEN "push"
        ELSE "unreachable"


\* ------------------------------------------------------------ source files
\* SupportedLanguage::try_from_extension; "None" stands for Option::None.
TryFromExtension(ext) ==
    IF ext = "rs" THEN "rust" ELSE IF ext = "py" THEN "python" ELSE "None"

\* SourcePath::new(&p, &ctx.project_root)
SourcePath(p) == [abs_path |-> p, pretty_path |-> ProjectRelativePath(p)]

\* Faulty variant of SourceFileNew: an unrecognized extension is taken for Rust.
SourceFileGuessed(source_path) ==
    LET extension == NameExt(EntryOf(source_path.abs_path))
    IN  [path |-> source_path,
         language |-> IF extension = "" THEN "None"
                      ELSE IF TryFromExtension(extension) = "None" THEN "rust"
                      ELSE TryFromExtension(extension)]

\* SourceFile::new: the language is resolved from the extension alone.
SourceFileNew(source_path) ==
    LET extension == NameExt(EntryOf(source_path.abs_path))
    IN  [path |-> source_path,
         language |-> IF extension = "" THEN "None" ELSE TryFromExtension(extension)]

RECURSIVE MapSourceFiles(_)
MapSourceFiles(ps) ==
    IF ps = <<>> THEN <<>>
    ELSE <<SourceFileNew(SourcePath(Head(ps)))>> \o MapSourceFiles(Tail(ps))

\* ----------------------------------------------------------------- intents
Irr(path, loc, msg) == [path |-> path, loc |-> loc, msg |-> msg]
NoIrr == Irr(<<>>, 0, 0)
Find(language, query, on_match) ==
    [type |-> "Find", language |-> language, query |-> query,
     on_match |-> on_match, irr |-> NoIrr]
Observe == [type |-> "Observe", language |-> "None", query |-> 0,
            on_match |-> 0, irr |-> NoIrr]
Warn(irr) == [type |-> "Warn", language |-> "None", query |-> 0,
              on_match |-> 0, irr |-> irr]

\* What the observers registered for open_project may return.
ProjectBehaviours ==
    { <<>>,
      <<Find("rust", 1, 1)>>,
      <<Warn(Irr(<<>>, 0, 2)), Find("rust", 1, 2), Warn(Irr(<<>>, 0, 1)),
        Find("python", 2, 1)>>,
      <<Find("rust", 1, 3)>>,
      <<Find("python", 1, 4), Find("rust", 2, 1)>>,
      <<Warn(Irr(<<>>, 0, 1)), Observe>> }

\* What the observers registered for open_file may do.
FileBehaviours == {"none", "warn", "find", "observe"}

Rulesets == [project : ProjectBehaviours, file : FileBehaviours]

\* observer_data().handle(Event::OpenProject(..)): the intents returned.
HandleOpenProject == rules.project

\* A pattern text that names the file it is meant for.
FileQuery(path) == 2 + EntryOf(path)

\* observer_data().handle(Event::OpenFile(path)): the intents returned.
HandleOpenFile(path) ==
    CASE rules.file = "none" -> <<>>
      [] rules.file = "warn" -> <<Warn(Irr(<<>>, 0, EntryOf(path))),
                                  Warn(Irr(path, 0, 1)), Warn(Irr(<<>>, 0, 1))>>
      [] rules.file = "find" -> <<Find("rust", 2, 2), Warn(Irr(path, 0, 2)),
                                  Find("rust", FileQuery(path), 1)>>
      [] OTHER -> <<Observe>>

\* on_match.handle(Event::Match(..)): the intents the callback returns.
HandleMatch(on_match, path, idx) ==
    CASE on_match = 1 -> <<Warn(Irr(path, idx, 1))>>
      [] on_match = 2 -> <<Warn(Irr(path, idx, 2)), Warn(Irr(path, idx, 1))>>
      [] on_match = 3 -> <<Warn(Irr(path, idx, 1)), Find("rust", 2, 1)>>
      [] OTHER -> <<Observe>>

\* The number of literals in a file's content.
Content(e) == (e % MaxMatches) + 1

\* QueryCursor::matches: how many matches a query has in a parsed file.
NumQueryMatches(query, e) == IF query = 1 THEN Content(e) ELSE 1

\* ----------------------------------------------------------------- results
NoResult ==
    [kind |-> "None", irritations |-> <<>>, num_files_scanned |-> 0,
     error |-> "", path |-> <<>>, language |-> "None"]
Ok(irrs, n) ==
    [kind |-> "Ok", irritations |-> irrs, num_files_scanned |-> n,
     error |-> "", path |-> <<>>, language |-> "None"]
Err(error, path, language) ==
    [kind |-> "Err", irritations |-> <<>>, num_files_scanned |-> 0,
     error |-> error, path |-> path, language |-> language]
Panic(msg) ==
    [kind |-> "Panic", irritations |-> <<>>, num_files_scanned |-> 0,
     error |-> msg, path |-> <<>>, language |-> "None"]
\* Error::IO { path, action: IOAction::Read, cause }
ErrIORead(path) == Err("IO:Read", path, "None")


\* ------------------------------------------------------- irritation order
RECURSIVE PathLess(_, _)
\* Lexicographic order of two paths.
PathLess(a, b) ==
    IF b = <<>> THEN FALSE
    ELSE IF a = <<>> THEN TRUE
    ELSE IF Head(a) # Head(b) THEN Head(a) < Head(b)
    ELSE PathLess(Tail(a), Tail(b))

\* Irritation's Ord: by file path, then location, then message.
IrrLess(a, b) ==
    \/ PathLess(a.path, b.path)
    \/ a.path = b.path /\ a.loc < b.loc
    \/ a.path = b.path /\ a.loc = b.loc /\ a.msg < b.msg

RECURSIVE InsertSorted(_, _)
InsertSorted(s, x) ==
    IF s = <<>> THEN <<x>>
    ELSE IF IrrLess(x, Head(s)) THEN <<x>> \o s
    ELSE <<Head(s)>> \o InsertSorted(Tail(s), x)

RECURSIVE SortFrom(_, _)
SortFrom(sorted, rest) ==
    IF rest = <<>> THEN sorted
    ELSE SortFrom(InsertSorted(sorted, Head(rest)), Tail(rest))

RECURSIVE InsertByPath(_, _)
InsertByPath(s, x) ==
    IF s = <<>> THEN <<x>>
    ELSE IF PathLess(x.path, Head(s).path) THEN <<x>> \o s
    ELSE <<Head(s)>> \o InsertByPath(Tail(s), x)

RECURSIVE SortByPathFrom(_, _)
SortByPathFrom(sorted, rest) ==
    IF rest = <<>> THEN sorted
    ELSE SortByPathFrom(InsertByPath(sorted, Head(rest)), Tail(rest))

\* Faulty variant of Sort: a stable sort by file path alone.
SortByPath(s) == SortByPathFrom(<<>>, s)

\* irritations.sort(): a stable sort by Irritation's Ord.
Sort(s) == SortFrom(<<>>, s)

\* if let MaxProblems::Limited(max) = max_problems { if max < len { truncate(max) } }
Truncate(s) ==
    IF max_problems.limited /\ max_problems.max < Len(s)
    THEN SubSeq(s, 1, max_problems.max)
    ELSE s

\* --------------------------------------------------------- intent handling
RECURSIVE SelectSeq2(_, _)
SelectSeq2(s, type) ==
    IF s = <<>> THEN <<>>
    ELSE IF Head(s).type = type THEN <<Head(s)>> \o SelectSeq2(Tail(s), type)
    ELSE SelectSeq2(Tail(s), type)

RECURSIVE IrrsOf(_)
IrrsOf(s) == IF s = <<>> THEN <<>> ELSE <<Head(s).irr>> \o IrrsOf(Tail(s))

\* Faulty variant of Finds: only the first Find intent is kept.
FindsFirst(intents) ==
    IF SelectSeq2(intents, "Find") = <<>> THEN <<>>
    ELSE <<Head(SelectSeq2(intents, "Find"))>>

\* The Find arm: (language, query, on_match) of every Find intent, in order.
Finds(intents) == SelectSeq2(intents, "Find")
\* Faulty variant of Warns: only the first Warn intent of a dispatch is kept.
WarnsFirst(intents) ==
    IF SelectSeq2(intents, "Warn") = <<>> THEN <<>>
    ELSE <<Head(SelectSeq2(intents, "Warn")).irr>>

\* The Warn arm: the irritation of every Warn intent, in order.
Warns(intents) == IrrsOf(SelectSeq2(intents, "Warn"))

\* Faulty variant of Chain: a file's own queries shadow the project's.
ChainShadowed(pq, fq) == IF fq = <<>> THEN pq ELSE fq

\* project_queries.iter().chain(file_queries.iter())
Chain(pq, fq) == pq \o fq

\* Faulty variant of FilterLanguage: every query is run, whatever its language.
FilterNothing(qs, language) == qs

RECURSIVE FilterLanguage(_, _)
\* .filter(|(l, _, _)| *l == language)
FilterLanguage(qs, language) ==
    IF qs = <<>> THEN <<>>
    ELSE IF Head(qs).language = language
         THEN <<Head(qs)>> \o FilterLanguage(Tail(qs), language)
         ELSE FilterLanguage(Tail(qs), language)

\* .all(|(l, _, _)| *l != language)
NoQueryFor(qs, language) == \A i \in DOMAIN qs : qs[i].language # language

RECURSIVE MatchesOf(_, _)
\* Every (query, match) pair of the file, in the order the nested
\* try_for_each of lines 234-265 visits them.
MatchesOf(qs, e) ==
    IF qs = <<>> THEN <<>>
    ELSE [i \in 1..NumQueryMatches(Head(qs).query, e) |->
              [query |-> Head(qs).query, on_match |-> Head(qs).on_match, idx |-> i]]
         \o MatchesOf(Tail(qs), e)


\* -------------------------------------------------------------------- Init
Kinds == {"dir", "file", "symlink", "other"}

\* Project trees: an entry exists iff the directory listing it is a real
\* directory; entries that are neither file, directory nor symlink (a fifo,
\* a socket) are tried at the top level only.
Trees ==
    {k \in [Entries -> Kinds \cup {"absent"}] :
        \A e \in Entries :
            IF Parent(e) = Root THEN k[e] # "absent"
            ELSE IF k[Parent(e)] # "dir" THEN k[e] = "absent"
            ELSE k[e] \in {"dir", "file", "symlink"}}

\* The tree in which every entry that can hold another is a directory and
\* every other entry a regular file.
PlainTree ==
    [e \in Entries |->
        IF \E c \in Entries : Parent(c) = e THEN "dir" ELSE "file"]

Unlimited == [limited |-> FALSE, max |-> 0]
Limited(n) == [limited |-> TRUE, max |-> n]

InitRun ==
    /\ pc = CASE command = "dump" -> "dump"
              [] command = "list_languages" -> "languages"
              [] OTHER -> "new"
    /\ store = "None"
    /\ inited = [m \in Vexes |-> 0]
    /\ frozen = FALSE
    /\ stack = <<[path |-> ProjectRoot, todo |-> {}, opened |-> FALSE]>>
    /\ paths = <<>>
    /\ examined = [e \in Entries |-> 0]
    /\ dirReads = [d \in Dirs |-> 0]
    /\ files = <<>>
    /\ fileIdx = 0
    /\ project_queries = <<>>
    /\ file_queries = <<>>
    /\ pending = <<>>
    /\ irritations = <<>>
    /\ query_cache = {}
    /\ compiled = <<>>
    /\ log = <<>>
    /\ result = NoResult

\* ------------------------------------------------------------------- nodes
NodeIds == 1..NumNodes
GrammarNames == {"identifier", "integer_literal"}
Texts == {"x", "1"}
AttrNames == {"kind", "location", "text", "walk", "id"}

\* Node { ts_node, source_file } (node.rs:20-27) as a Starlark value.
Node(ts_node, source_file) ==
    [type |-> "Node", ts_node |-> ts_node, source_file |-> source_file]
\* A Starlark value that is no Node.
NotNode(type) == [type |-> type, ts_node |-> 0, source_file |-> 0]

Nodes == {Node(n, f) : n \in NodeIds, f \in 1..2}
Values == Nodes \cup {NotNode("string"), NotNode("NoneType")}

\* A field of `probed`: <<>> while the operation was not called, <<r>> once
\* it returned r.
Unset == <<>>
Returned(r) == <<r>>
Unprobed ==
    [has_attr |-> Unset, get_attr |-> Unset, dir_attr |-> Unset, equals |-> Unset,
     hash_self |-> Unset, hash_other |-> Unset]

\* A callback holds any captured Node and any second value.
InitNode ==
    /\ ts_kind \in [NodeIds -> GrammarNames]
    /\ ts_text \in [NodeIds -> Texts]
    /\ self_node \in Nodes
    /\ other_value \in Values
    /\ attr \in AttrNames
    /\ probed = Unprobed

\* No callback is running.
InitNoNode ==
    /\ ts_kind = [n \in NodeIds |-> "identifier"]
    /\ ts_text = [n \in NodeIds |-> "x"]
    /\ self_node = Node(1, 1)
    /\ other_value = NotNode("NoneType")
    /\ attr = "kind"
    /\ probed = Unprobed

\* Any tree and any pattern lists, scanned with one project-wide rule that
\* also warns about the project.
InitTrees ==
    /\ kind \in Trees
    /\ allows \in AllowLists
    /\ ignores \in IgnoreLists
    /\ rules = [project |-> <<Warn(Irr(<<>>, 0, 1)), Find("rust", 1, 1)>>,
                file |-> "none"]
    /\ bad = 0
    /\ max_problems = Unlimited
    /\ dump_path = <<>>
    /\ command = "check"

\* Any rule set, cap and broken file, on a tree in which every file is found.
InitRules ==
    /\ kind = PlainTree
    /\ allows = <<AllPaths>>
    /\ ignores = <<>>
    /\ rules \in Rulesets
    /\ bad \in {0, 4}
    /\ max_problems \in {Unlimited} \cup {Limited(n) : n \in 0..MaxCap}
    /\ dump_path = <<>>
    /\ command = "check"

\* A dump command (line 74) on any path of any tree.
InitDump ==
    /\ kind \in Trees
    /\ allows = <<AllPaths>>
    /\ ignores = <<>>
    /\ rules = [project |-> <<>>, file |-> "none"]
    /\ bad \in {0, 4}
    /\ max_problems = Unlimited
    /\ dump_path \in {AbsPath(e) : e \in Entries}
    /\ command = "dump"

\* A list command (line 72), of the checks or of the languages.
InitList ==
    /\ kind = PlainTree
    /\ allows = <<AllPaths>>
    /\ ignores = <<>>
    /\ rules \in Rulesets
    /\ bad = 0
    /\ max_problems = Unlimited
    /\ dump_path = <<>>
    /\ command \in {"list_checks", "list_languages"}

Init == (InitTrees \/ InitRules \/ InitDump \/ InitList) /\ InitRun /\ InitNoNode

\* ------------------------------------------------------- scriptlet store
\* The `?` after a step of the store's construction: the command ends with
\* the error.
StoreFails(error) ==
    /\ result' = Err(error, <<>>, "None")
    /\ pc' = "done"
    /\ UNCHANGED storeVars

\* Lines 84-85 and 101-102: Context::acquire()? and PreinitingStore::new(&ctx)?.
StoreNew ==
    /\ pc = "new"
    /\ \/ StoreFails("Manifest")
       \/ /\ store' = "Preiniting"
          /\ pc' = "preinit"
          /\ UNCHANGED <<inited, frozen, result>>
    /\ UNCHANGED <<inputs, nodeVars, walkVars, scanVars>>

\* Faulty variant of AfterPreinit: check goes on to vex with the preinited
\* store.
AfterPreinitSkipsInit(cmd) == IF cmd = "check" THEN "walk" ELSE "list"

\* Faulty variant of AfterPreinit: list builds the store the way check does.
AfterPreinitInits(cmd) == "init"

\* Lines 85-86 and 102: what follows .preinit()?, for list the enumeration
\* and for check .init()?.
AfterPreinit(cmd) == IF cmd = "check" THEN "init" ELSE "list"

\* Lines 85 and 102: .preinit()?, every rule module is loaded and its
\* top-level code evaluated.
StorePreinit ==
    /\ pc = "preinit"
    /\ \/ StoreFails("Load")
       \/ /\ store' = "Preinited"
          /\ pc' = AfterPreinit(command)
          /\ UNCHANGED <<inited, frozen, result>>
    /\ UNCHANGED <<inputs, nodeVars, walkVars, scanVars>>

\* The rule modules whose init has not been called yet.
Uninited == {m \in Vexes : inited[m] = 0}

\* Line 102: .init()?, the call of one module's init, in module order.
StoreInit ==
    /\ pc = "init"
    /\ Uninited # {}
    /\ LET m == CHOOSE m \in Uninited : \A n \in Uninited : m <= n
       IN  \/ /\ result' = Err("Init", <<>>, "None")
              /\ pc' = "done"
              /\ store' = "Initing"
              /\ inited' = [inited EXCEPT ![m] = @ + 1]
              /\ UNCHANGED frozen
           \/ /\ store' = "Initing"
              /\ inited' = [inited EXCEPT ![m] = @ + 1]
              /\ UNCHANGED <<frozen, pc, result>>
    /\ UNCHANGED <<inputs, nodeVars, walkVars, scanVars>>

\* Line 102: .init()? returns the inited store, its heap frozen; line 107
\* calls vex with it.
StoreFreeze ==
    /\ pc = "init"
    /\ Uninited = {}
    /\ store' = "Inited"
    /\ frozen' = TRUE
    /\ pc' = "walk"
    /\ UNCHANGED <<inputs, nodeVars, walkVars, scanVars, inited, result>>

\* Ok(()) of list: the names were printed.
Listed == [NoResult EXCEPT !.kind = "Listed"]

\* Lines 86-89: the loaded modules are enumerated.
ListChecks ==
    /\ pc = "list"
    /\ result' = Listed
    /\ pc' = "done"
    /\ UNCHANGED <<inputs, nodeVars, storeVars, walkVars, scanVars>>

\* Line 91: the supported languages are enumerated.
ListLanguages ==
    /\ pc = "languages"
    /\ result' = Listed
    /\ pc' = "done"
    /\ UNCHANGED <<inputs, nodeVars, storeVars, walkVars, scanVars>>

\* ----------------------------------------------------------------- walkdir
Top == stack[Len(stack)]
SetTop(f) == [stack EXCEPT ![Len(stack)] = f]
Walking == pc = "walk" /\ stack # <<>>

\* Lines 291-295: fs::read_dir(path) succeeds.
WalkReadDir ==
    /\ Walking /\ ~Top.opened
    /\ LET d == EntryOf(Top.path) IN
        /\ stack' = SetTop([Top EXCEPT !.opened = TRUE, !.todo = ReadDir(d)])
        /\ dirReads' = [dirReads EXCEPT ![d] = @ + 1]
    /\ UNCHANGED <<inputs, nodeVars, storeVars, scanVars, pc, paths, examined, result>>

\* Faulty variant of WalkFails: the failure is swallowed and the directory
\* treated as exhausted.
WalkSwallows(path) ==
    /\ stack' = SetTop([Top EXCEPT !.opened = TRUE, !.todo = {}])
    /\ UNCHANGED <<pc, result>>

\* What an I/O failure inside walkdir does to the run (the `?` of line 165).
WalkFails(path) ==
    /\ result' = ErrIORead(path)
    /\ pc' = "done"
    /\ stack' = <<>>

\* Lines 291-307: read_dir, the directory iterator or symlink_metadata fails.
WalkIOError ==
    /\ Walking
    /\ \/ ~Top.opened /\ WalkFails(Top.path)
       \/ Top.opened /\ Top.todo # {} /\ WalkFails(Top.path)
       \/ Top.opened /\ \E e \in Top.todo : WalkFails(AbsPath(e))
    /\ UNCHANGED <<inputs, nodeVars, storeVars, scanVars, paths, examined, dirReads>>

\* Lines 296-337: one iteration of `for entry in entries`.
WalkEntry ==
    /\ Walking /\ Top.opened
    /\ \E e \in Top.todo :
        LET entry_path == AbsPath(e)
            rest == SetTop([Top EXCEPT !.todo = @ \ {e}])
        IN  /\ examined' = [examined EXCEPT ![e] = @ + 1]
            /\ IF Skipped(entry_path)
               THEN /\ stack' = rest
                    /\ UNCHANGED <<paths, pc, result>>
               ELSE CASE Disposition(e) = "symlink" ->
                           /\ stack' = rest
                           /\ UNCHANGED <<paths, pc, result>>
                      [] Disposition(e) = "recurse" ->
                           /\ stack' = Append(rest, [path |-> entry_path,
                                                     todo |-> {}, opened |-> FALSE])
                           /\ UNCHANGED <<paths, pc, result>>
                      [] Disposition(e) = "push" ->
                           /\ stack' = rest
                           /\ paths' = Append(paths, entry_path)
                           /\ UNCHANGED <<pc, result>>
                      [] OTHER ->
                           /\ stack' = <<>>
                           /\ pc' = "done"
                           /\ result' = Panic("unreachable")
                           /\ UNCHANGED paths
    /\ UNCHANGED <<inputs, nodeVars, storeVars, scanVars, dirReads>>

\* Line 339: a walkdir call returns Ok(()); lines 166-171 when it is the
\* outermost call: the paths become source files.
WalkReturn ==
    /\ Walking /\ Top.opened /\ Top.todo = {}
    /\ stack' = SubSeq(stack, 1, Len(stack) - 1)
    /\ IF Len(stack) = 1
       THEN /\ files' = MapSourceFiles(paths)
            /\ pc' = "open_project"
       ELSE UNCHANGED <<files, pc>>
    /\ UNCHANGED <<inputs, nodeVars, storeVars, paths, examined, dirReads, fileIdx, project_queries,
                   file_queries, pending, irritations, cacheVars, log, result>>


\* --------------------------------------------------------------------- vex
Event(op, path, query, on_match, idx) ==
    [op |-> op, path |-> path, query |-> query, on_match |-> on_match, idx |-> idx]

\* Faulty variant of Return: the irritations collected so far are reported
\* along with the error.
ReturnCollected(r) ==
    /\ result' = [r EXCEPT !.irritations = irritations]
    /\ pc' = "done"

\* A `?` in vex: the run ends with the error and nothing else.
Return(r) ==
    /\ result' = r
    /\ pc' = "done"

RECURSIVE FirstIllegalButFind(_, _)
\* Faulty variant of FirstIllegal: a Find intent is tolerated everywhere.
FirstIllegalButFind(intents, legal) ==
    IF intents = <<>> THEN ""
    ELSE IF Head(intents).type \notin legal \cup {"Find"} THEN Head(intents).type
    ELSE FirstIllegalButFind(Tail(intents), legal)

RECURSIVE FirstIllegalButObserve(_, _)
\* Faulty variant of FirstIllegal: an Observe intent is tolerated everywhere.
FirstIllegalButObserve(intents, legal) ==
    IF intents = <<>> THEN ""
    ELSE IF Head(intents).type \notin legal \cup {"Observe"} THEN Head(intents).type
    ELSE FirstIllegalButObserve(Tail(intents), legal)

RECURSIVE FirstIllegal(_, _)
\* The first intent of the sequence whose type is not legal, or "" if none.
FirstIllegal(intents, legal) ==
    IF intents = <<>> THEN ""
    ELSE IF Head(intents).type \notin legal THEN Head(intents).type
    ELSE FirstIllegal(Tail(intents), legal)

\* The (language, query) pair a Find intent asks the query cache for.
Pair(find) == <<find.language, find.query>>

RECURSIVE Misses(_, _)
\* QueryCache::get_or_create over the Find intents of one dispatch: the pairs
\* that were not in the cache and so are compiled, in order.
Misses(cache, finds) ==
    IF finds = <<>> THEN <<>>
    ELSE IF Pair(Head(finds)) \in cache THEN Misses(cache, Tail(finds))
    ELSE <<Pair(Head(finds))>> \o Misses(cache \cup {Pair(Head(finds))}, Tail(finds))

\* Faulty variant of CacheAtDispatch: every dispatch gets an empty cache.
CacheAnew(cache) == {}

\* Lines 176, 185, 212, 251: the one `query_cache` of the run is lent to every
\* dispatch.
CacheAtDispatch(cache) == cache

\* What a dispatch that returned `intents` did to the query cache.
Lookup(intents) ==
    LET cache == CacheAtDispatch(query_cache)
        misses == Misses(cache, SelectSeq2(intents, "Find"))
    IN  /\ query_cache' = cache \cup {misses[i] : i \in DOMAIN misses}
        /\ compiled' = compiled \o misses

PanicMessage(type) ==
    IF type = "Find" THEN "internal error: find intended during find"
    ELSE "internal error: non-init observe"

\* Lines 178-197: dispatch OpenProject and sort its intents.
OpenProject ==
    /\ pc = "open_project"
    /\ log' = Append(log, Event("OpenProject", <<>>, 0, 0, 0))
    /\ \/ /\ Return(Err("Scriptlet", <<>>, "None"))
          /\ UNCHANGED <<project_queries, irritations, fileIdx, cacheVars>>
       \/ LET intents == HandleOpenProject
              illegal == FirstIllegal(intents, {"Find", "Warn"})
          IN  /\ Lookup(intents)
              /\ IF illegal # ""
                 THEN /\ Return(Panic(PanicMessage(illegal)))
                      /\ UNCHANGED <<project_queries, irritations, fileIdx>>
                 ELSE /\ project_queries' = Finds(intents)
                      /\ irritations' = irritations \o Warns(intents)
                      /\ fileIdx' = 1
                      /\ pc' = "files"
                      /\ UNCHANGED result
    /\ UNCHANGED <<inputs, nodeVars, storeVars, walkVars, files, file_queries, pending>>

InLoop == pc = "files" /\ fileIdx <= Len(files)
File == files[fileIdx]

\* Lines 200-205: a file of unknown language is skipped.
SkipUnknown ==
    /\ InLoop
    /\ File.language = "None"
    /\ fileIdx' = fileIdx + 1
    /\ UNCHANGED <<inputs, nodeVars, storeVars, walkVars, files, project_queries, file_queries,
                   pending, irritations, cacheVars, log, pc, result>>

\* Faulty variant of NeedsParse: the file is parsed whatever the queries.
ParsesAlways(pq, fq, language) == TRUE

\* Lines 226-232: TRUE iff the file is parsed.
NeedsParse(pq, fq, language) == ~NoQueryFor(Chain(pq, fq), language)

\* Faulty variant of FileQueries: the vector outlives the loop iteration.
FileQueriesKept(previous, intents) == previous \o Finds(intents)

\* Lines 208-224: `file_queries` is a new vector in every iteration of the
\* loop, filled with the Find intents of this file's OpenFile dispatch.
FileQueries(previous, intents) == Finds(intents)

\* Lines 207-232: dispatch OpenFile, sort its intents, decide whether to parse.
OpenFile ==
    /\ InLoop
    /\ File.language # "None"
    /\ log' = Append(log, Event("OpenFile", File.path.pretty_path, 0, 0, 0))
    /\ \/ /\ Return(Err("Scriptlet", File.path.pretty_path, "None"))
          /\ UNCHANGED <<file_queries, irritations, fileIdx, cacheVars>>
       \/ LET intents == HandleOpenFile(File.path.pretty_path)
              illegal == FirstIllegal(intents, {"Find", "Warn"})
          IN  /\ Lookup(intents)
              /\ IF illegal # ""
                 THEN /\ Return(Panic(PanicMessage(illegal)))
                      /\ UNCHANGED <<file_queries, irritations, fileIdx>>
                 ELSE /\ file_queries' = FileQueries(file_queries, intents)
                      /\ irritations' = irritations \o Warns(intents)
                      /\ IF NeedsParse(project_queries, file_queries', File.language)
                         THEN pc' = "parse" /\ UNCHANGED fileIdx
                         ELSE fileIdx' = fileIdx + 1 /\ UNCHANGED pc
                      /\ UNCHANGED result
    /\ UNCHANGED <<inputs, nodeVars, storeVars, walkVars, files, project_queries, pending>>

\* Faulty variant of ParseFile: the tree is not examined for errors.
ParseFileUnchecked(file, read_ok) ==
    IF ~read_ok THEN ErrIORead(file.path.pretty_path)
    ELSE IF file.language = "None" THEN Err("Unparseable", file.path.pretty_path, "None")
    ELSE NoResult

\* Faulty variant of ParseFile: a file of no known language is handed to the
\* parser all the same.
ParseFileAnyLanguage(file, read_ok) ==
    IF ~read_ok THEN ErrIORead(file.path.pretty_path)
    ELSE IF bad = EntryOf(file.path.abs_path)
         THEN Err("UnparseableAsLanguage", file.path.pretty_path, file.language)
    ELSE NoResult

\* SourceFile::parse: the error it returns, or NoResult for Ok(parsed file).
ParseFile(file, read_ok) ==
    IF ~read_ok THEN ErrIORead(file.path.pretty_path)
    ELSE IF file.language = "None" THEN Err("Unparseable", file.path.pretty_path, "None")
    ELSE IF bad = EntryOf(file.path.abs_path)
         THEN Err("UnparseableAsLanguage", file.path.pretty_path, file.language)
    ELSE NoResult

\* Faulty variant of Continue: the loop does not move on to the next file.
ContinueSameFile(todo) ==
    /\ pending' = todo
    /\ IF todo = <<>>
       THEN pc' = "files" /\ UNCHANGED fileIdx
       ELSE pc' = "match" /\ UNCHANGED fileIdx

\* Where the loop goes once `todo` are the matches still to dispatch.
Continue(todo) ==
    /\ pending' = todo
    /\ IF todo = <<>>
       THEN pc' = "files" /\ fileIdx' = fileIdx + 1
       ELSE pc' = "match" /\ UNCHANGED fileIdx

\* Line 233 and the set-up of lines 234-245: parse the file, enumerate matches.
Parse ==
    /\ pc = "parse"
    /\ log' = Append(log, Event("Parse", File.path.pretty_path, 0, 0, 0))
    /\ \E read_ok \in BOOLEAN :
        LET parsed == ParseFile(File, read_ok)
        IN  IF parsed.kind = "Err"
            THEN /\ Return(parsed)
                 /\ UNCHANGED <<pending, fileIdx>>
            ELSE /\ Continue(MatchesOf(
                        FilterLanguage(Chain(project_queries, file_queries),
                                       File.language),
                        EntryOf(File.path.abs_path)))
                 /\ UNCHANGED result
    /\ UNCHANGED <<inputs, nodeVars, storeVars, walkVars, files, project_queries, file_queries,
                   irritations, cacheVars>>

\* Faulty variant of Match: a Find returned by a Match callback is registered
\* as a project-level query, an Observe is dropped.
MatchRegistering ==
    /\ pc = "match"
    /\ LET m == Head(pending)
           path == File.path.pretty_path
           intents == HandleMatch(m.on_match, path, m.idx)
       IN  /\ log' = Append(log, Event("Match", path, m.query, m.on_match, m.idx))
           /\ Lookup(intents)
           /\ project_queries' = project_queries \o Finds(intents)
           /\ irritations' = irritations \o Warns(intents)
           /\ Continue(Tail(pending))
    /\ UNCHANGED <<inputs, storeVars, nodeVars, walkVars, files, file_queries, result>>

\* Lines 245-264: dispatch one Match event to its query's callback.
Match ==
    /\ pc = "match"
    /\ LET m == Head(pending)
           path == File.path.pretty_path
       IN  /\ log' = Append(log, Event("Match", path, m.query, m.on_match, m.idx))
           /\ \/ /\ Return(Err("Scriptlet", path, "None"))
                 /\ UNCHANGED <<pending, fileIdx, irritations, cacheVars>>
              \/ LET intents == HandleMatch(m.on_match, path, m.idx)
                     illegal == FirstIllegal(intents, {"Warn"})
                 IN  /\ Lookup(intents)
                     /\ IF illegal # ""
                        THEN /\ Return(Panic(PanicMessage(illegal)))
                             /\ UNCHANGED <<pending, fileIdx, irritations>>
                        ELSE /\ irritations' = irritations \o Warns(intents)
                             /\ Continue(Tail(pending))
                             /\ UNCHANGED result
    /\ UNCHANGED <<inputs, nodeVars, storeVars, walkVars, files, project_queries, file_queries>>

RECURSIVE Dedup(_)
Dedup(s) ==
    IF Len(s) < 2 THEN s
    ELSE IF s[1] = s[2] THEN Dedup(Tail(s))
    ELSE <<Head(s)>> \o Dedup(Tail(s))

\* Faulty variant of Collect: the cap is applied before the sort.
CollectFirstSeen(irrs) == Sort(Truncate(irrs))

\* Faulty variant of Collect: equal irritations are merged.
CollectDeduped(irrs) == Truncate(Dedup(Sort(irrs)))

\* Lines 268-274: the sorted, capped irritations.
Collect(irrs) == Truncate(Sort(irrs))

\* Lines 268-278: the loop is over; sort, cap and return.
Finish ==
    /\ pc = "files" /\ fileIdx > Len(files)
    /\ irritations' = Collect(irritations)
    /\ result' = Ok(irritations', Len(files))
    /\ pc' = "done"
    /\ UNCHANGED <<inputs, nodeVars, storeVars, walkVars, files, fileIdx, project_queries, file_queries,
                   pending, cacheVars, log>>

\* -------------------------------------------------------------------- dump
\* fs::read_to_string can succeed only on a file, reached directly or
\* through a symlink.
Readable(e) ==
    \/ kind[e] = "file"
    \/ kind[e] = "symlink" /\ TargetOf(e) \in Entries /\ kind[TargetOf(e)] = "file"

\* Ok(()) of dump: the syntax tree was printed.
Dumped == [NoResult EXCEPT !.kind = "Dumped"]

\* Lines 342-353: SourceFile::new(src_path)?.parse()?, then print the tree.
Dump ==
    /\ pc = "dump"
    /\ \E read_ok \in BOOLEAN :
        /\ read_ok => Readable(EntryOf(dump_path))
        /\ LET src_file == ParseFile(SourceFileNew(SourcePath(dump_path)), read_ok)
           IN  result' = IF src_file.kind = "Err" THEN src_file ELSE Dumped
    /\ pc' = "done"
    /\ UNCHANGED <<inputs, nodeVars, storeVars, walkVars, scanVars>>

Next ==
    \/ WalkReadDir
    \/ WalkIOError
    \/ WalkEntry
    \/ WalkReturn
    \/ OpenProject
    \/ SkipUnknown
    \/ OpenFile
    \/ Parse
    \/ Match
    \/ Finish
    \/ Dump
    \/ StoreNew
    \/ StorePreinit
    \/ StoreInit
    \/ StoreFreeze
    \/ ListChecks
    \/ ListLanguages

Spec == Init /\ [][Next]_vars

\* A check run up to the end of walkdir (lines 102 and 150), on every tree:
\* the run is one sequential thread, so while a step is possible one is taken.
WalkInit == InitTrees /\ InitRun /\ InitNoNode

WalkNext ==
    \/ StoreNew
    \/ StorePreinit
    \/ StoreInit
    \/ StoreFreeze
    \/ WalkReadDir
    \/ WalkIOError
    \/ WalkEntry
    \/ WalkReturn

WalkSpec == WalkInit /\ [][WalkNext]_vars /\ WF_vars(WalkNext)


\* ---------------------------------------------------------- captured nodes
\* Option<Value>: <<>> is None, <<v>> is Some(v).
None == <<>>
Some(v) == <<v>>

\* A Starlark string and a Location (node.rs:132-157, the node's start and end
\* position) as values.
StringValue(str) == [type |-> "string", str |-> str, of |-> 0]
Location(node) == [type |-> "Location", str |-> "", of |-> node.ts_node]

\* tree_sitter::Node == tree_sitter::Node: the node ids are equal.
TSNodeEq(a, b) == a = b

\* Faulty variant of NodeEq: nodes are compared by what they contain.
NodeEqByContent(a, b) ==
    /\ ts_kind[a.ts_node] = ts_kind[b.ts_node]
    /\ ts_text[a.ts_node] = ts_text[b.ts_node]

\* node.rs:20: derive(PartialEq) on Node compares ts_node and source_file.
NodeEq(a, b) ==
    /\ TSNodeEq(a.ts_node, b.ts_node)
    /\ a.source_file = b.source_file

\* node.rs:63-68
Equals(self, other) ==
    IF other.type # "Node" THEN FALSE ELSE NodeEq(self, other)

\* node.rs:70-73: hasher.write_usize(self.id())
WriteHash(self) == self.ts_node

\* node.rs:75-80
DirAttr(self) == <<"kind", "location">>

\* node.rs:82-88
GetAttr(self, name) ==
    CASE name = "kind" -> Some(StringValue(ts_kind[self.ts_node]))
      [] name = "location" -> Some(Location(self))
      [] OTHER -> None

\* Faulty variant of HasAttr: the methods are counted as attributes too.
HasAttrOrMethod(self, name) == name \in {"kind", "location", "text", "walk"}

\* node.rs:90-92
HasAttr(self, name) == name \in {"kind", "location"}

\* node.rs:37-46 and 94-97: the methods get_methods registers.
Methods == {"walk", "text"}

Probe(field, r) ==
    /\ probed[field] = Unset
    /\ probed' = [probed EXCEPT ![field] = Returned(r)]
    /\ UNCHANGED <<inputs, storeVars, nodeInputs, walkVars, scanVars, pc, result>>

NodeHasAttr == Probe("has_attr", HasAttr(self_node, attr))
NodeGetAttr == Probe("get_attr", GetAttr(self_node, attr))
NodeDirAttr == Probe("dir_attr", DirAttr(self_node))
NodeEquals == Probe("equals", Equals(self_node, other_value))
NodeWriteHash == Probe("hash_self", WriteHash(self_node))
NodeWriteHashOther ==
    /\ other_value.type = "Node"
    /\ Probe("hash_other", WriteHash(other_value))

NodeNext ==
    \/ NodeHasAttr
    \/ NodeGetAttr
    \/ NodeDirAttr
    \/ NodeEquals
    \/ NodeWriteHash
    \/ NodeWriteHashOther

\* A Match callback at work on a captured Node: the run itself is at rest.
NodeInit ==
    /\ kind = PlainTree
    /\ allows = <<AllPaths>>
    /\ ignores = <<>>
    /\ rules = [project |-> <<Find("rust", 1, 1)>>, file |-> "none"]
    /\ bad = 0
    /\ max_problems = Unlimited
    /\ dump_path = <<>>
    /\ command = "check"
    /\ InitRun
    /\ InitNode

NodeSpec == NodeInit /\ [][NodeNext]_vars

\* ================================================================== claims
Range(seq) == {seq[i] : i \in DOMAIN seq}
Count(seq, x) == Cardinality({i \in DOMAIN seq : seq[i] = x})

\* The walk returned Ok: walkdir's failures end the run before any event.
WalkSucceeded == pc \in {"open_project", "files", "parse", "match"}
                    \/ (pc = "done" /\ log # <<>>)

Rel(e) == RelComponents(e)
Allowed(e) == \E i \in DOMAIN allows : Rel(e) \in allows[i]
Ignored(e) == \E i \in DOMAIN ignores : Rel(e) \in ignores[i]
Dotted(e) == NameDot(e)
Discovered(e) == AbsPath(e) \in Range(paths)
Below(d) == {e \in Entries : d \in ProperAncestors(e)}
HasFrame(e) == \E i \in DOMAIN stack : stack[i].path = AbsPath(e)

\* C1 as stated: once the walk has succeeded, every regular file matching an
\* allow pattern is in the discovered list, wherever it lies.
C1_AllowedAlwaysFound ==
    WalkSucceeded =>
        \A e \in Entries : (kind[e] = "file" /\ Allowed(e)) => Discovered(e)

\* C1, amended: once the walk has succeeded, every regular file matching an
\* allow pattern is in the discovered list even if it is hidden or ignored,
\* provided every directory between the root and it is itself allowed or
\* neither hidden nor ignored.
C1_AllowedFoundUnlessPruned ==
    WalkSucceeded =>
        \A e \in Entries :
            ( /\ kind[e] = "file" /\ Allowed(e)
              /\ \A a \in ProperAncestors(e) : Allowed(a) \/ (~Dotted(a) /\ ~Ignored(a)) )
            => Discovered(e)

\* A hidden, ignored and allowed file below a hidden, allowed directory was found.
C1_Witness ==
    /\ WalkSucceeded
    /\ \E e \in Entries :
        /\ kind[e] = "file" /\ Allowed(e) /\ Dotted(e) /\ Ignored(e)
        /\ Parent(e) # Root /\ Ignored(Parent(e))
        /\ Discovered(e)

\* C2: an entry matching no allow pattern that is hidden or ignored is never
\* added to the discovered list, and if it is a directory it is never read
\* and nothing below it is examined or added.
C2_SkippedEntriesPruned ==
    \A e \in Entries :
        (~Allowed(e) /\ (Dotted(e) \/ Ignored(e))) =>
            /\ ~Discovered(e)
            /\ dirReads[e] = 0
            /\ ~HasFrame(e)
            /\ \A c \in Below(e) : examined[c] = 0 /\ ~Discovered(c)

\* A skipped directory holding an allowed file was examined and the walk went on
\* to succeed.
C2_Witness ==
    /\ WalkSucceeded
    /\ \E e \in Entries :
        /\ kind[e] = "dir" /\ ~Allowed(e) /\ (Dotted(e) \/ Ignored(e))
        /\ examined[e] = 1
        /\ \E c \in Below(e) : kind[c] = "file" /\ Allowed(c)

\* C3: a symbolic link is never added to the discovered list and never
\* recursed into, whatever its target and whether or not it is allowed.
C3_SymlinksNeverFollowed ==
    \A e \in Entries :
        kind[e] = "symlink" =>
            ~Discovered(e) /\ dirReads[e] = 0 /\ ~HasFrame(e)

\* Two allowed symlinks, one to a directory and one to a file, were examined.
C3_Witness ==
    /\ WalkSucceeded
    /\ \E e, f \in Entries :
        /\ kind[e] = "symlink" /\ Allowed(e) /\ examined[e] = 1
        /\ FollowingMetadata(e) = "dir"
        /\ kind[f] = "symlink" /\ Allowed(f) /\ examined[f] = 1
        /\ FollowingMetadata(f) = "file"

\* The files C4 says are discovered.
C4_Qualifies(e) ==
    /\ kind[e] = "file"
    /\ \A a \in {e} \cup ProperAncestors(e) :
        /\ kind[a] # "symlink"
        /\ Allowed(a) \/ (~Dotted(a) /\ ~Ignored(a))

\* C4: after a successful walk the discovered list holds exactly once each
\* regular file that, like every directory above it, is no symlink and is
\* allowed or neither hidden nor ignored; and it holds nothing else.
C4_DiscoveredExactly ==
    WalkSucceeded =>
        /\ \A e \in Entries :
            Count(paths, AbsPath(e)) = IF C4_Qualifies(e) THEN 1 ELSE 0
        /\ Range(paths) \subseteq {AbsPath(e) : e \in Entries}

\* A walk found several files and left out a regular file.
C4_Witness ==
    /\ WalkSucceeded
    /\ Len(paths) >= 3
    /\ \E e \in Entries : kind[e] = "file" /\ ~Discovered(e)

\* The state of a run whose walk failed.
WalkFailed ==
    /\ pc = "done"
    /\ result.kind = "Err" /\ result.error = "IO:Read"
    /\ result.irritations = <<>>
    /\ stack = <<>> /\ files = <<>> /\ irritations = <<>> /\ log = <<>>

\* C5: a failure of read_dir, of the directory iterator or of stat during the
\* walk makes vex return the I/O error (action Read) at once: nothing is
\* visited afterwards, no event is dispatched and no irritation is returned.
C5_WalkErrorIsFatal ==
    [][ /\ WalkIOError => (WalkFailed' /\ paths' = paths /\ examined' = examined
                                       /\ dirReads' = dirReads)
        /\ ~WalkFailed ]_vars

\* A walk failed part-way: some entries were examined, one found, others never reached.
C5_Witness ==
    /\ WalkFailed
    /\ paths # <<>>
    /\ \E e \in Entries : kind[e] = "dir" /\ examined[e] = 1
    /\ \E e \in Entries : kind[e] # "absent" /\ examined[e] = 0


\* ------------------------------------------------------------------ C6-C10
HasEvent(ops, path) == \E i \in DOMAIN log : log[i].op \in ops /\ log[i].path = path
Succeeded == result.kind = "Ok"

\* C6: a discovered file with an unrecognized or missing extension is never
\* parsed, gets no OpenFile or Match event and contributes no irritation; it
\* is counted in num_files_scanned and the scan goes on to the other files.
C6_UnknownLanguageSkipped ==
    /\ \A p \in Range(paths) :
        NameExt(EntryOf(p)) \notin {"rs", "py"} =>
            /\ ~HasEvent({"OpenFile", "Parse", "Match"}, ProjectRelativePath(p))
            /\ \A irr \in Range(irritations) \cup Range(result.irritations) :
                irr.path # ProjectRelativePath(p)
    /\ Succeeded =>
        /\ result.num_files_scanned = Len(paths)
        /\ \A p \in Range(paths) :
            NameExt(EntryOf(p)) \in {"rs", "py"} =>
                HasEvent({"OpenFile"}, ProjectRelativePath(p))

\* A file of unknown language was passed over and a later file matched.
C6_Witness ==
    /\ Succeeded
    /\ result.num_files_scanned >= 3
    /\ \E i, j \in DOMAIN files :
        /\ i < j
        /\ files[i].language = "None"
        /\ HasEvent({"Match"}, files[j].path.pretty_path)

\* The queries registered for a file: those of OpenProject, then its own.
C7_QueriesFor(path) == Finds(HandleOpenProject) \o Finds(HandleOpenFile(path))

\* C7: a file for which neither the project-level nor its file-level query
\* set has a query of the file's language is never parsed and gets no Match.
C7_UntargetedNeverParsed ==
    \A i \in DOMAIN files :
        (\A k \in DOMAIN C7_QueriesFor(files[i].path.pretty_path) :
            C7_QueriesFor(files[i].path.pretty_path)[k].language # files[i].language)
        => ~HasEvent({"Parse", "Match"}, files[i].path.pretty_path)

\* A file of known language was opened and not parsed while another was parsed.
C7_Witness ==
    /\ Succeeded
    /\ \E i, j \in DOMAIN files :
        /\ files[i].language # "None"
        /\ HasEvent({"OpenFile"}, files[i].path.pretty_path)
        /\ ~HasEvent({"Parse"}, files[i].path.pretty_path)
        /\ HasEvent({"Parse"}, files[j].path.pretty_path)

RECURSIVE WarnsOfLog(_)
\* Every Warn intent the handlers returned for the events of a log, in order.
WarnsOfLog(l) ==
    IF l = <<>> THEN <<>>
    ELSE LET ev == Head(l)
             intents ==
                 CASE ev.op = "OpenProject" -> HandleOpenProject
                   [] ev.op = "OpenFile" -> HandleOpenFile(ev.path)
                   [] ev.op = "Match" -> HandleMatch(ev.on_match, ev.path, ev.idx)
                   [] OTHER -> <<>>
         IN  Warns(intents) \o WarnsOfLog(Tail(l))

Warned == WarnsOfLog(log)
Sorted(s) == \A i, j \in DOMAIN s : i < j => ~IrrLess(s[j], s[i])

\* C8: with max_problems = Limited(N) and N below the number of Warn intents
\* collected, exactly N irritations are returned and they are the N smallest
\* of those collected.
C8_CapKeepsSmallest ==
    (Succeeded /\ max_problems.limited /\ max_problems.max < Len(Warned)) =>
        /\ Len(result.irritations) = max_problems.max
        /\ \A x \in Range(result.irritations) :
            Count(result.irritations, x) <= Count(Warned, x)
        /\ \A x \in Range(Warned) :
            Count(result.irritations, x) < Count(Warned, x) =>
                \A y \in Range(result.irritations) : ~IrrLess(x, y)

\* A cap cut off irritations, and one of the first N seen is not among those kept.
C8_Witness ==
    /\ Succeeded /\ max_problems.limited
    /\ 1 < max_problems.max /\ max_problems.max < Len(Warned)
    /\ \E i \in 1..max_problems.max : Warned[i] \notin Range(result.irritations)

RECURSIVE Ascending(_)
\* The elements of a finite set of numbers in ascending order.
Ascending(S) ==
    IF S = {} THEN <<>>
    ELSE LET m == CHOOSE x \in S : \A y \in S : x <= y
         IN  <<m>> \o Ascending(S \ {m})

\* The Warn intents one file gives rise to, from its path alone.
C9_FileWarns(e) ==
    LET file == SourceFileNew(SourcePath(AbsPath(e)))
        path == file.path.pretty_path
        queries == FilterLanguage(C7_QueriesFor(path), file.language)
        ms == MatchesOf(queries, e)
    IN  IF file.language = "None" THEN <<>>
        ELSE Warns(HandleOpenFile(path))
             \o WarnsOfLog([i \in DOMAIN ms |->
                    Event("Match", path, ms[i].query, ms[i].on_match, ms[i].idx)])

RECURSIVE C9_Concat(_)
C9_Concat(es) ==
    IF es = <<>> THEN <<>> ELSE C9_FileWarns(Head(es)) \o C9_Concat(Tail(es))

\* The report of the run that visits the same files in ascending path order.
C9_CanonicalReport ==
    Collect(Warns(HandleOpenProject)
            \o C9_Concat(Ascending({EntryOf(p) : p \in Range(paths)})))

\* C9: the irritation sequence vex returns is the one the run over the same
\* files in canonical order returns: it does not depend on the walk order.
C9_ReportIndependentOfWalkOrder ==
    Succeeded => result.irritations = C9_CanonicalReport

\* A run that met the files in another order than the canonical one, each
\* with irritations, some of them at the same path.
C9_Witness ==
    /\ Succeeded
    /\ \E i, j \in DOMAIN files :
        /\ i < j
        /\ EntryOf(files[i].path.abs_path) > EntryOf(files[j].path.abs_path)
        /\ \E x, y \in Range(result.irritations) :
            /\ x.path = <<>> /\ x.msg = EntryOf(files[i].path.abs_path)
            /\ y.path = <<>> /\ y.msg = EntryOf(files[j].path.abs_path)

\* C10: without an effective cap the returned irritations are exactly the
\* Warn intents returned for OpenProject, OpenFile and Match during the run,
\* each as often as it was returned, in non-decreasing order.
C10_AllWarnsReturnedSorted ==
    (Succeeded /\ (~max_problems.limited \/ max_problems.max >= Len(Warned))) =>
        /\ Len(result.irritations) = Len(Warned)
        /\ \A x \in Range(Warned) \cup Range(result.irritations) :
            Count(result.irritations, x) = Count(Warned, x)
        /\ Sorted(result.irritations)

\* An uncapped run returned irritations of all three events, one of them twice,
\* that were not collected in order.
C10_Witness ==
    /\ Succeeded /\ ~max_problems.limited
    /\ ~Sorted(Warned)
    /\ \E x \in Range(Warned) : Count(result.irritations, x) = 2
    /\ \E i \in DOMAIN log : log[i].op = "Match" /\ HandleMatch(log[i].on_match, log[i].path, log[i].idx) # <<>>
    /\ Warns(HandleOpenProject) # <<>>
    /\ \E i \in DOMAIN log : log[i].op = "OpenFile" /\ Warns(HandleOpenFile(log[i].path)) # <<>>

\* A capped run whose cap was not reached returned everything.
C10_WitnessCapped ==
    /\ Succeeded /\ max_problems.limited
    /\ max_problems.max >= Len(Warned) /\ Len(Warned) >= 3

\* The dispatch of the last event failed: the handler returned an error and
\* so no intents.
HandlerFailed == result.kind = "Err" /\ result.error = "Scriptlet"

\* The intents the handler of a logged event returns when it does not fail.
IntentsOf(ev) ==
    CASE ev.op = "OpenProject" -> HandleOpenProject
      [] ev.op = "OpenFile" -> HandleOpenFile(ev.path)
      [] ev.op = "Match" -> HandleMatch(ev.on_match, ev.path, ev.idx)
      [] OTHER -> <<>>

Returns(ev, types) == \E k \in DOMAIN IntentsOf(ev) : IntentsOf(ev)[k].type \in types

\* The run ended in a panic with this message: vex returned nothing.
Panicked(msg) ==
    /\ pc = "done"
    /\ result = Panic(msg)

\* C11: a Match dispatch whose callback returns a Find or an Observe intent
\* is the last thing the run does: vex panics with the message of the first
\* such intent, returns neither Ok nor Err, and the query sets still hold
\* exactly the Finds of the OpenProject dispatch and of this file's OpenFile
\* dispatch, so the intent was registered nowhere.
C11_MatchIntentMustBeWarn ==
    \A i \in DOMAIN log :
        (log[i].op = "Match" /\ Returns(log[i], {"Find", "Observe"})
            /\ ~(i = Len(log) /\ HandlerFailed))
        => /\ i = Len(log)
           /\ \E k \in DOMAIN IntentsOf(log[i]) :
                /\ IntentsOf(log[i])[k].type # "Warn"
                /\ \A j \in 1..(k - 1) : IntentsOf(log[i])[j].type = "Warn"
                /\ Panicked(PanicMessage(IntentsOf(log[i])[k].type))
           /\ result.irritations = <<>>
           /\ project_queries = SelectSeq2(HandleOpenProject, "Find")
           /\ file_queries = SelectSeq2(HandleOpenFile(log[i].path), "Find")
           /\ \A k \in DOMAIN irritations : irritations[k] # NoIrr

\* A Match callback returned a Find after irritations had been collected.
C11_Witness ==
    /\ Panicked("internal error: find intended during find")
    /\ log[Len(log)].op = "Match"
    /\ irritations # <<>>

\* A Match callback returned an Observe.
C11_WitnessObserve ==
    /\ Panicked("internal error: non-init observe")
    /\ log[Len(log)].op = "Match"

\* The last `n` elements of a sequence.
Suffix(seq, n) == SubSeq(seq, Len(seq) - n + 1, Len(seq))

\* What the state shows of an init-phase dispatch (OpenProject or OpenFile)
\* whose handler returned its intents.
C12_InitDispatch(i) ==
    LET ev == log[i]
        finds == SelectSeq2(IntentsOf(ev), "Find")
        warns == IrrsOf(SelectSeq2(IntentsOf(ev), "Warn"))
    IN  IF Returns(ev, {"Observe"})
        THEN /\ i = Len(log)
             /\ Panicked("internal error: non-init observe")
        ELSE /\ ~(i = Len(log) /\ result.kind = "Panic")
             /\ ev.op = "OpenProject" => project_queries = finds
             /\ (i = Len(log) /\ pc # "done") =>
                    /\ ev.op = "OpenFile" => file_queries = finds
                    /\ Len(irritations) >= Len(warns)
                    /\ Suffix(irritations, Len(warns)) = warns

\* C12: an OpenProject or OpenFile dispatch that returns an Observe ends the
\* run in the "non-init observe" panic; one that returns only Find and Warn
\* intents never panics, its Finds become the query set and its Warns are
\* appended to the irritations; and no step of a run changes the observers
\* (`rules`, what the store's observers answer to each event).
C12_ObserveOnlyAtInit ==
    /\ [](\A i \in DOMAIN log :
            (log[i].op \in {"OpenProject", "OpenFile"}
                /\ ~(i = Len(log) /\ HandlerFailed))
            => C12_InitDispatch(i))
    /\ [][rules' = rules]_vars

\* OpenProject returned Finds and Warns, which were accepted, and a later
\* OpenFile dispatch returned an Observe.
C12_Witness ==
    /\ Panicked("internal error: non-init observe")
    /\ log[Len(log)].op = "OpenFile"
    /\ project_queries # <<>>
    /\ irritations # <<>>

\* The file has a syntax error for its detected language.
HasSyntaxError(file) ==
    /\ file.language # "None"
    /\ bad = EntryOf(file.path.abs_path)

UnparseableAsLanguage(file) ==
    Err("UnparseableAsLanguage", file.path.pretty_path, file.language)

\* C13 as stated: a run that discovered a file with a syntax error never
\* returns Ok.
C13_SyntaxErrorAlwaysAborts ==
    Succeeded => \A i \in DOMAIN files : ~HasSyntaxError(files[i])

\* C13, amended: a file with a syntax error aborts the run when it is parsed
\* and its content could be read. In a check run that is once a Parse event
\* of the file is logged, which is then the last event; in a dump run it is
\* the file given. The run then returns UnparseableAsLanguage with that
\* file's path and language.
C13_ParsedSyntaxErrorAborts ==
    /\ \A i \in DOMAIN log : \A k \in DOMAIN files :
            (log[i].op = "Parse" /\ log[i].path = files[k].path.pretty_path
                /\ HasSyntaxError(files[k])
                /\ ~(i = Len(log) /\ result = ErrIORead(log[i].path)))
            => /\ i = Len(log)
               /\ pc = "done"
               /\ result = UnparseableAsLanguage(files[k])
    /\ LET file == SourceFileNew(SourcePath(dump_path))
       IN  (pc = "done" /\ dump_path # <<>> /\ HasSyntaxError(file)
                /\ result # ErrIORead(file.path.pretty_path))
           => result = UnparseableAsLanguage(file)

\* A check run parsed and matched one file, then hit the file with the syntax
\* error.
C13_Witness ==
    /\ pc = "done"
    /\ result.error = "UnparseableAsLanguage"
    /\ log # <<>>
    /\ log[Len(log)].op = "Parse"
    /\ \E i \in DOMAIN log : log[i].op = "Match"

\* A dump of the file with the syntax error.
C13_WitnessDump ==
    /\ pc = "done"
    /\ dump_path # <<>>
    /\ result.error = "UnparseableAsLanguage"

\* The run is over because parse() failed on the file at fileIdx: the result
\* is that error alone, and no file after it has any event.
ParseFailed ==
    /\ pc = "done"
    /\ log # <<>>
    /\ fileIdx \in DOMAIN files
    /\ log[Len(log)] = Event("Parse", File.path.pretty_path, 0, 0, 0)
    /\ result \in {ErrIORead(File.path.pretty_path), UnparseableAsLanguage(File)}
    /\ \A k \in (fileIdx + 1)..Len(files) :
            ~HasEvent({"OpenFile", "Parse", "Match"}, files[k].path.pretty_path)

\* C14: a parse() that fails during vex, on the read or on a syntax error,
\* leaves the run in ParseFailed, and no step is ever taken from there: no
\* event for a later file, and the irritations collected so far are not
\* returned.
C14_ParseFailureIsFatal ==
    [][/\ (pc = "parse" /\ (HasSyntaxError(File) \/ result' # result)) => ParseFailed'
       /\ ~ParseFailed]_vars

\* parse() failed after irritations had been collected and with a file of a
\* known language still to come.
C14_Witness ==
    /\ ParseFailed
    /\ irritations # <<>>
    /\ \E k \in (fileIdx + 1)..Len(files) : files[k].language # "None"

\* The failure was the read of the file.
C14_WitnessRead ==
    /\ ParseFailed
    /\ result.error = "IO:Read"
    /\ irritations # <<>>

\* The file dump was given, as SourceFile::new makes it.
DumpFile == SourceFileNew(SourcePath(dump_path))

\* dump has applied parse() to a file of no known language.
C15_ParsedNoLanguage ==
    /\ pc = "done"
    /\ dump_path # <<>>
    /\ DumpFile.language = "None"

Unparseable(file) == Err("Unparseable", file.path.pretty_path, "None")

\* C15 as stated: parse() on a file of no known language always fails with
\* Unparseable carrying the file's path.
C15_NoLanguageIsUnparseable ==
    C15_ParsedNoLanguage => result = Unparseable(DumpFile)

\* C15, amended: parse() on a file of no known language never produces a
\* parsed file; it fails with the IO read error, which is all it can do when
\* the path is not a readable file, or else with Unparseable carrying the
\* file's path.
C15_NoLanguageNeverParses ==
    C15_ParsedNoLanguage =>
        /\ result \in {Unparseable(DumpFile), ErrIORead(DumpFile.path.pretty_path)}
        /\ ~Readable(EntryOf(dump_path)) => result # Unparseable(DumpFile)

\* parse() returned Unparseable for a file without extension.
C15_Witness ==
    /\ C15_ParsedNoLanguage
    /\ NameExt(EntryOf(dump_path)) = ""
    /\ result = Unparseable(DumpFile)

\* parse() returned Unparseable for a file with an unknown extension.
C15_WitnessUnknown ==
    /\ C15_ParsedNoLanguage
    /\ NameExt(EntryOf(dump_path)) = "txt"
    /\ result = Unparseable(DumpFile)

\* C16: OpenProject is the first event of every run that has events and is
\* dispatched only then; when it is dispatched the walk is over and the
\* discovered paths have become the source files; until then the
\* project-level query set is empty, and once the run is past the dispatch
\* it is exactly the Find intents that dispatch returned, in order.
C16_OpenProjectOnceAndFirst ==
    /\ \A i \in DOMAIN log : log[i].op = "OpenProject" <=> i = 1
    /\ log # <<>> => /\ stack = <<>>
                     /\ files = MapSourceFiles(paths)
    /\ log = <<>> => project_queries = <<>>
    /\ (pc \in {"files", "parse", "match"} \/ Succeeded) =>
            /\ Count(log, Event("OpenProject", <<>>, 0, 0, 0)) = 1
            /\ project_queries = SelectSeq2(HandleOpenProject, "Find")

\* A finished run whose OpenProject dispatch returned two Finds and which
\* went on to open, parse and match files.
C16_Witness ==
    /\ Succeeded
    /\ Len(project_queries) = 2
    /\ \E i, j \in DOMAIN log : log[i].op = "OpenFile" /\ log[j].op = "Match"

\* The Find intents returned by the OpenProject dispatch of the run.
ProjectFinds == SelectSeq2(HandleOpenProject, "Find")

\* The Find intents returned by the OpenFile dispatch of the file at `path`.
FileFinds(path) == SelectSeq2(HandleOpenFile(path), "Find")

\* The event is a Match of this Find intent's query, for its callback.
MatchOf(ev, find) ==
    /\ ev.op = "Match"
    /\ ev.query = find.query
    /\ ev.on_match = find.on_match

\* C17: a Find returned by the OpenFile dispatch of file F is run against F
\* only: a Match event of its query on any other file G stems from an equal
\* Find that the project or G itself returned, never from F's.
C17_FileFindScopedToFile ==
    \A i \in DOMAIN log : \A k \in DOMAIN files :
        LET F == files[k].path.pretty_path
            G == log[i].path
        IN  F # G =>
            \A n \in DOMAIN FileFinds(F) :
                MatchOf(log[i], FileFinds(F)[n]) =>
                    \E o \in Range(Chain(ProjectFinds, FileFinds(G))) :
                        MatchOf(log[i], o)

\* Two Rust files were parsed one after the other; the first one's own
\* pattern matched in it.
C17_Witness ==
    /\ Succeeded
    /\ \E k \in DOMAIN files : \E l \in (k + 1)..Len(files) :
        LET F == files[k].path.pretty_path
            G == files[l].path.pretty_path
        IN  /\ files[k].language = files[l].language
            /\ \E i \in DOMAIN log :
                    log[i].path = F /\ MatchOf(log[i], Find("rust", FileQuery(F), 1))
            /\ \E i \in DOMAIN log :
                    log[i].path = G /\ MatchOf(log[i], Find("rust", FileQuery(G), 1))

\* The run has finished with the file at index l: files before fileIdx went
\* through their whole iteration of the loop.
Completed(l) == l \in DOMAIN files /\ l < fileIdx

\* The file at index l was parsed and every match of the Find's query in it
\* was dispatched to the Find's callback.
RunAgainst(find, l) ==
    LET G == files[l].path.pretty_path
    IN  /\ HasEvent({"Parse"}, G)
        /\ \A idx \in 1..NumQueryMatches(find.query, EntryOf(G)) :
                \E i \in DOMAIN log :
                    log[i] = Event("Match", G, find.query, find.on_match, idx)

\* Every project-level Find of the file's language was run against the
\* completed file at index l.
C18_ProjectFindsRun(l) ==
    \A n \in DOMAIN ProjectFinds :
        ProjectFinds[n].language = files[l].language => RunAgainst(ProjectFinds[n], l)

\* C18 as stated: once a Find for language L has been returned, by
\* OpenProject or by the OpenFile dispatch of an earlier file, every file of
\* language L the run completes afterwards was parsed and matched against it.
C18_FindReachesLaterFiles ==
    \A l \in DOMAIN files : Completed(l) =>
        /\ C18_ProjectFindsRun(l)
        /\ \A k \in 1..(l - 1) :
            LET finds == FileFinds(files[k].path.pretty_path)
            IN  \A n \in DOMAIN finds :
                   (files[k].language # "None" /\ finds[n].language = files[l].language)
                   => RunAgainst(finds[n], l)

\* C18, amended: a Find returned by OpenProject is run against every file of
\* its language that the run completes, and a Find returned by the OpenFile
\* dispatch of a file is run against that file.
C18_FindReachesItsScope ==
    \A l \in DOMAIN files : Completed(l) =>
        /\ C18_ProjectFindsRun(l)
        /\ LET finds == FileFinds(files[l].path.pretty_path)
           IN  \A n \in DOMAIN finds :
                   finds[n].language = files[l].language => RunAgainst(finds[n], l)

\* A finished run with a project-level Rust query and two Rust files, each
\* matched against it and against its own pattern.
C18_Witness ==
    /\ Succeeded
    /\ \E n \in DOMAIN ProjectFinds : ProjectFinds[n].language = "rust"
    /\ \E k \in DOMAIN files : \E l \in (k + 1)..Len(files) :
            /\ files[k].language = "rust" /\ files[l].language = "rust"
            /\ FileFinds(files[k].path.pretty_path) # <<>>
            /\ HasEvent({"Match"}, files[k].path.pretty_path)
            /\ HasEvent({"Match"}, files[l].path.pretty_path)

\* The language SourceFile::new detects for the file at a pretty path.
LanguageAt(path) == SourceFileNew(SourcePath(ProjectRoot \o path)).language

\* How many Find intents of the combined set of the file at `path` have the
\* file's language, this query and this callback, if the query has a match
\* number idx in the file; 0 if it has not.
C19_Due(path, query, on_match, idx) ==
    LET combined == ProjectFinds \o FileFinds(path)
    IN  IF idx \in 1..NumQueryMatches(query, EntryOf(path))
        THEN Cardinality({n \in DOMAIN combined :
                            /\ combined[n].language = LanguageAt(path)
                            /\ combined[n].query = query
                            /\ combined[n].on_match = on_match})
        ELSE 0

\* C19: no Match event is dispatched more often than the Find intents of the
\* file's own language, with that query and that callback, account for; and
\* once a parsed file is completed, every match of every query of its
\* language has been dispatched exactly once per such Find intent, to that
\* intent's callback.
C19_OneMatchEventPerMatch ==
    /\ \A i \in DOMAIN log :
            log[i].op = "Match" =>
                Count(log, log[i]) <= C19_Due(log[i].path, log[i].query,
                                              log[i].on_match, log[i].idx)
    /\ \A l \in DOMAIN files :
            LET G == files[l].path.pretty_path
                combined == ProjectFinds \o FileFinds(G)
            IN  (Completed(l) /\ HasEvent({"Parse"}, G)) =>
                \A n \in DOMAIN combined :
                    \A idx \in 1..NumQueryMatches(combined[n].query, EntryOf(G)) :
                        Count(log, Event("Match", G, combined[n].query,
                                         combined[n].on_match, idx))
                            = C19_Due(G, combined[n].query, combined[n].on_match, idx)

\* A completed Rust file whose combined set held a Python query and Rust
\* queries with two different callbacks, one of them with two matches.
C19_Witness ==
    /\ Succeeded
    /\ \E n \in DOMAIN ProjectFinds : ProjectFinds[n].language = "python"
    /\ \E l \in DOMAIN files :
        LET G == files[l].path.pretty_path
        IN  /\ files[l].language = "rust"
            /\ \E i, j \in DOMAIN log :
                    /\ log[i].op = "Match" /\ log[i].path = G /\ log[i].idx = 2
                    /\ log[j].op = "Match" /\ log[j].path = G
                    /\ log[j].on_match # log[i].on_match

\* The logged dispatches whose handler returned a Find intent for this
\* (language, query) pair.
Requesters(pair) ==
    {i \in DOMAIN log :
        /\ ~(i = Len(log) /\ HandlerFailed)
        /\ \E n \in DOMAIN IntentsOf(log[i]) :
              /\ IntentsOf(log[i])[n].type = "Find"
              /\ Pair(IntentsOf(log[i])[n]) = pair}

\* C20: in every state of a run no (language, query) pair has been compiled
\* more than once; the cache holds exactly the pairs compiled so far, and
\* every pair a dispatch has asked for is among them, so a repeated request
\* was served from the cache.
C20_CompiledAtMostOnce ==
    /\ \A i \in DOMAIN compiled : Count(compiled, compiled[i]) = 1
    /\ query_cache = Range(compiled)
    /\ \A i \in DOMAIN log : \A n \in DOMAIN IntentsOf(log[i]) :
            (IntentsOf(log[i])[n].type = "Find" /\ i \in Requesters(Pair(IntentsOf(log[i])[n])))
            => Pair(IntentsOf(log[i])[n]) \in query_cache

\* A finished run in which OpenProject and the OpenFile dispatches of two
\* files asked for the same pair, which was compiled once.
C20_Witness ==
    /\ Succeeded
    /\ \E pair \in query_cache :
            /\ Cardinality(Requesters(pair)) >= 3
            /\ Count(compiled, pair) = 1

\* The store's states in the order of the lifecycle.
StoreRank(state) ==
    CASE state = "None" -> 0
      [] state = "Preiniting" -> 1
      [] state = "Preinited" -> 2
      [] state = "Initing" -> 3
      [] state = "Inited" -> 4

StoreErrors == {"Manifest", "Load", "Init"}

\* Discovery has begun or an event was dispatched.
Scanning ==
    \/ pc \in {"walk", "open_project", "files", "parse", "match"}
    \/ log # <<>>
    \/ paths # <<>>
    \/ \E d \in Dirs : dirReads[d] > 0

\* The building of the store failed: the run is over with that error, before
\* discovery and before any event.
StoreFailed ==
    /\ result.kind = "Err"
    /\ result.error \in StoreErrors

\* C21: in a check run the store moves one state at a time through
\* Preiniting, Preinited, Initing and Inited and never back; no module's
\* init is called twice and the inited store has called each once; discovery
\* and every event dispatch find the store Inited and its heap frozen; and a
\* failure of loading or init ends the run with nothing discovered, nothing
\* dispatched and no step after it.
C21_StoreInitedBeforeScan ==
    /\ [](command = "check" =>
            /\ \A m \in Vexes : inited[m] <= 1
            /\ store = "Inited" <=> frozen
            /\ store = "Inited" => \A m \in Vexes : inited[m] = 1
            /\ (\E m \in Vexes : inited[m] > 0) => StoreRank(store) >= 3
            /\ Scanning => store = "Inited"
            /\ StoreFailed => (pc = "done" /\ ~Scanning /\ store # "Inited"))
    /\ [][command = "check" =>
            /\ StoreRank(store') \in {StoreRank(store), StoreRank(store) + 1}
            /\ StoreRank(store') = StoreRank(store)
                   => (store = "Initing" \/ inited' = inited)
            /\ ~StoreFailed]_vars

\* A finished check run that dispatched Match events with the inited store.
C21_Witness ==
    /\ command = "check"
    /\ Succeeded
    /\ store = "Inited"
    /\ \A m \in Vexes : inited[m] = 1
    /\ \E i \in DOMAIN log : log[i].op = "Match"

\* The init of the last module failed.
C21_WitnessInitFails ==
    /\ command = "check"
    /\ result.error = "Init"
    /\ \A m \in Vexes : inited[m] = 1

\* The operation was called on self_node and returned r.
Got(field, r) == probed[field] = Returned(r)
Called(field) == probed[field] # Unset

\* The names a script finds on a Node: its attributes and its methods.
Exposed(names) == Range(names) \cup Methods

\* C22: whatever the Node and the name asked for, has_attr answers TRUE
\* exactly when get_attr returns a value and exactly when dir_attr lists the
\* name; and the names dir_attr lists, with the methods text and walk, are
\* kind, location, text and walk and no others.
C22_AttrsConsistent ==
    /\ (Called("has_attr") /\ Called("get_attr")) =>
            (Got("has_attr", TRUE) <=> ~Got("get_attr", None))
    /\ (Called("has_attr") /\ Called("dir_attr")) =>
            (Got("has_attr", TRUE) <=> attr \in Range(probed.dir_attr[1]))
    /\ (Called("get_attr") /\ Called("dir_attr")) =>
            (~Got("get_attr", None) <=> attr \in Range(probed.dir_attr[1]))
    /\ Called("dir_attr") =>
            /\ Exposed(probed.dir_attr[1]) = {"kind", "location", "text", "walk"}
            /\ Range(probed.dir_attr[1]) \cap Methods = {}
            /\ Len(probed.dir_attr[1]) = Cardinality(Range(probed.dir_attr[1]))

\* All three operations were called for the attribute `location`.
C22_Witness ==
    /\ attr = "location"
    /\ Got("has_attr", TRUE)
    /\ Got("get_attr", Some(Location(self_node)))
    /\ Called("dir_attr")

\* All three operations were called for the method name `text`.
C22_WitnessMethod ==
    /\ attr = "text"
    /\ Got("has_attr", FALSE)
    /\ Got("get_attr", None)
    /\ Called("dir_attr")

\* Two Nodes wrap distinct syntax-tree nodes.
Distinct(a, b) == a.ts_node # b.ts_node

SameContent(a, b) ==
    /\ ts_kind[a.ts_node] = ts_kind[b.ts_node]
    /\ ts_text[a.ts_node] = ts_text[b.ts_node]

\* C23: equals answers FALSE for a value that is no Node and for a Node that
\* wraps a distinct syntax-tree node, whatever the two contain; it answers
\* TRUE for the Node itself; and two Nodes that equals calls equal write the
\* same hash.
C23_EqualityByIdentity ==
    Called("equals") =>
        /\ other_value.type # "Node" => Got("equals", FALSE)
        /\ (other_value.type = "Node" /\ Distinct(self_node, other_value))
                => Got("equals", FALSE)
        /\ other_value = self_node => Got("equals", TRUE)
        /\ (Got("equals", TRUE) /\ Called("hash_self") /\ Called("hash_other"))
                => probed.hash_self = probed.hash_other

\* Two distinct nodes of the same file with the same kind and text compared
\* unequal, and both hashes were written.
C23_Witness ==
    /\ other_value.type = "Node"
    /\ Distinct(self_node, other_value)
    /\ self_node.source_file = other_value.source_file
    /\ SameContent(self_node, other_value)
    /\ Got("equals", FALSE)
    /\ Called("hash_self") /\ Called("hash_other")

\* A Node compared equal to itself and the two hashes were written.
C23_WitnessEqual ==
    /\ Got("equals", TRUE)
    /\ Called("hash_self") /\ Called("hash_other")

\* C24: no step taken once the OpenProject dispatch is over changes the
\* project-level query set, and no step taken between a file's OpenFile
\* dispatch and its last Match event changes the file-level query set; in
\* particular no Match step changes either.
C24_QuerySetsFixedAfterDispatch ==
    [][/\ pc \in {"files", "parse", "match"} => project_queries' = project_queries
       /\ pc \in {"parse", "match"} => file_queries' = file_queries]_vars

\* Between two Match events of a file that has project-level and file-level
\* queries, both sets being what the dispatches returned.
C24_Witness ==
    /\ pc = "match"
    /\ log[Len(log)].op = "Match"
    /\ project_queries # <<>> /\ project_queries = ProjectFinds
    /\ file_queries # <<>> /\ file_queries = FileFinds(File.path.pretty_path)

\* The events of the log about the file at `path`, by operation.
EventsOf(ops, path) == {i \in DOMAIN log : log[i].op \in ops /\ log[i].path = path}

FileOps == {"OpenFile", "Parse", "Match"}

\* C25: every file has at most one OpenFile and at most one Parse event, a
\* completed file of known language exactly one OpenFile; a file's events
\* stand together in the log, none of another file between them, with the
\* OpenFile first, then the Parse, then the Match events.
C25_OneFileAtATime ==
    /\ \A l \in DOMAIN files :
        LET P == files[l].path.pretty_path
        IN  /\ Cardinality(EventsOf({"OpenFile"}, P)) <= 1
            /\ Cardinality(EventsOf({"Parse"}, P)) <= 1
            /\ (Completed(l) /\ files[l].language # "None")
                   => Cardinality(EventsOf({"OpenFile"}, P)) = 1
            /\ EventsOf({"Parse", "Match"}, P) # {} => EventsOf({"OpenFile"}, P) # {}
            /\ EventsOf({"Match"}, P) # {} => EventsOf({"Parse"}, P) # {}
    /\ \A i, j \in DOMAIN log :
        (i < j /\ log[i].op \in FileOps /\ log[j].op \in FileOps) =>
            /\ log[j].op = "OpenFile" => log[i].path # log[j].path
            /\ log[j].op = "Parse" => (log[i].path = log[j].path => log[i].op = "OpenFile")
            /\ log[i].path = log[j].path =>
                   \A k \in i..j : log[k].path = log[i].path
    /\ \A i \in DOMAIN log :
            log[i].op \in FileOps =>
                \E l \in DOMAIN files : files[l].path.pretty_path = log[i].path

\* A finished run in which one file was opened and skipped and two others
\* were opened, parsed and matched.
C25_Witness ==
    /\ Succeeded
    /\ \E a, b, c \in DOMAIN files :
        LET A == files[a].path.pretty_path
            B == files[b].path.pretty_path
            C == files[c].path.pretty_path
        IN  /\ a < b
            /\ EventsOf({"Match"}, A) # {} /\ EventsOf({"Match"}, B) # {}
            /\ EventsOf({"OpenFile"}, C) # {} /\ EventsOf({"Parse"}, C) = {}

\* The irritations of the Warn intents that the OpenProject and OpenFile
\* dispatches of the run returned.
InitPhaseWarns ==
    UNION {Range(IrrsOf(SelectSeq2(IntentsOf(log[i]), "Warn"))) :
              i \in {j \in DOMAIN log : /\ log[j].op \in {"OpenProject", "OpenFile"}
                                        /\ ~(j = Len(log) /\ HandlerFailed)}}

\* The cap left the irritation out: the report is full and holds nothing
\* greater than it.
CutByCap(w) ==
    /\ max_problems.limited
    /\ Len(result.irritations) = max_problems.max
    /\ \A k \in DOMAIN result.irritations : ~IrrLess(w, result.irritations[k])

\* C26 as stated: every Warn returned by an OpenProject or OpenFile observer
\* is in the report of a run that succeeds.
C26_InitWarnAlwaysReported ==
    Succeeded => \A w \in InitPhaseWarns : w \in Range(result.irritations)

\* C26, amended: every Warn returned by an OpenProject or OpenFile observer
\* is in the report of a run that succeeds, whether or not any file was
\* parsed, unless max_problems cut it off; without a cap it always is.
C26_InitWarnReportedUnlessCut ==
    Succeeded => \A w \in InitPhaseWarns :
                    w \in Range(result.irritations) \/ CutByCap(w)

\* A finished run that opened a file, raised a Warn for it and skipped it
\* without parsing; the Warn is in the report.
C26_Witness ==
    /\ Succeeded
    /\ \E l \in DOMAIN files :
        LET P == files[l].path.pretty_path
        IN  /\ EventsOf({"OpenFile"}, P) # {}
            /\ EventsOf({"Parse"}, P) = {}
            /\ Irr(P, 0, 1) \in InitPhaseWarns
            /\ Irr(P, 0, 1) \in Range(result.irritations)

\* A finished run on a project without any file of a known language; the
\* Warn of the OpenProject observer is the report.
C26_WitnessNoParseableFile ==
    /\ Succeeded
    /\ paths # <<>>
    /\ \A l \in DOMAIN files : files[l].language = "None"
    /\ InitPhaseWarns # {}
    /\ Range(result.irritations) = InitPhaseWarns

\* C27: on every tree walkdir reads no directory twice and examines no entry
\* twice, and a walk that has begun comes to its end, by returning, failing
\* or panicking.
C27_WalkTerminates ==
    /\ [](/\ \A e \in Entries : examined[e] <= 1
          /\ \A d \in Dirs : dirReads[d] <= 1)
    /\ (pc = "walk") ~> (pc # "walk")

\* A walk returned after it had examined a symbolic link to the directory
\* that holds it and a symbolic link in a directory below the root.
C27_Witness ==
    /\ WalkSucceeded
    /\ \E e \in Entries :
            /\ kind[e] = "symlink" /\ TargetOf(e) = Parent(e)
            /\ examined[e] = 1
    /\ \E e \in Entries :
            /\ kind[e] = "symlink" /\ Parent(e) # Root
            /\ examined[e] = 1

\* C28: in a run of list for checks the store never goes past Preinited: no
\* module's init is called, the heap is not frozen, discovery does not run
\* and no event is dispatched; the modules are enumerated only from the
\* Preinited store, and with that the run ends.
C28_ListStopsAtPreinited ==
    /\ [](command = "list_checks" =>
            /\ StoreRank(store) <= 2
            /\ \A m \in Vexes : inited[m] = 0
            /\ ~frozen
            /\ ~Scanning
            /\ irritations = <<>>
            /\ result.kind = "Listed" => (store = "Preinited" /\ pc = "done"))
    /\ [][(command = "list_checks" /\ pc = "list")
            => (store = "Preinited" /\ result'.kind = "Listed"
                /\ UNCHANGED storeVars)]_vars

\* The rule modules were loaded and enumerated.
C28_Witness ==
    /\ command = "list_checks"
    /\ result = Listed
    /\ store = "Preinited"
    /\ pc = "done"
====
